---- MODULE Spec2Model ----
(***************************************************************************)
(* Model of src/apirequest.ts: createAPIRequestAsync (parameter merge,     *)
(* body / media / auth / headers extraction, un-aliasing, required check,  *)
(* path-parameter stripping, body decision tree, header assembly, final    *)
(* options merge, dispatch) and the multipart/related stream it assembles  *)
(* (PassThrough rStream with a flush hook, ProgressStream pStream, pipe).  *)
(*                                                                         *)
(* JavaScript objects are ordered: an object is a sequence of entries      *)
(* [k, v] with distinct keys, in insertion order (Object.keys order).      *)
(* A parameter name is [base, marks]: the text `base` followed by `marks`  *)
(* trailing "_" characters, so key.slice(-1) and key.slice(0, -1) are      *)
(* computed on the name.  Parameter values are strings; the ones that      *)
(* stand for objects (a media spec, a headers object, a body, an auth      *)
(* client) are references looked up by the operators below.                *)
(***************************************************************************)
EXTENDS Integers, Sequences, FiniteSets, TLC

\* ------------------------------------------------------------------ bounds
MaxMarks == 2       \* trailing "_" characters on a parameter name
MaxBytes == 2       \* length of the media source's content
MaxDirectives == 2  \* length the caller's userAgentDirectives may reach

\* ------------------------------------------------------------------ values
Undef == "undefined"
EmptyStr == ""
ClientObj == "OAuth2Client"       \* an auth client object
CtxClientObj == "CtxOAuth2Client" \* the auth client configured per client
HeadersRef == "ref:headers"       \* reference to the caller's headers object
MediaString == "ref:media-string" \* {body: 'hello'}
MediaStream == "ref:media-stream" \* {body: <Readable>}
MediaTyped == "ref:media-typed"   \* {body: 'hello', mimeType: 'text/csv'}
MediaNoBody == "ref:media-empty"  \* {}
BodyB == "ref:body-B"             \* {title: 't'}
BodyR == "ref:body-R"             \* {name: 'r', mimeType: 'image/png'}
ReadableRef == "ref:readable"     \* a stream.Readable
RStreamRef == "ref:rStream"       \* the assembled PassThrough
ObjectRefs == {ClientObj, CtxClientObj, HeadersRef, MediaString, MediaStream,
               MediaTyped, MediaNoBody, BodyB, BodyR, ReadableRef, RStreamRef}

Truthy(v) == v \notin {Undef, EmptyStr}
Or(a, b) == IF Truthy(a) THEN a ELSE b
TypeofString(v) == v # Undef /\ v \notin ObjectRefs
TypeofObject(v) == v \in ObjectRefs

\* ------------------------------------------------------------ object model
K(b) == [base |-> b, marks |-> 0]
KA(b, n) == [base |-> b, marks |-> n]
E(key, val) == [k |-> key, v |-> val]
EmptyObj == <<>>

Has(o, key) == \E i \in DOMAIN o : o[i].k = key
Get(o, key) ==
  IF Has(o, key) THEN o[CHOOSE i \in DOMAIN o : o[i].k = key].v ELSE Undef
Set(o, key, val) ==
  IF Has(o, key)
  THEN [i \in DOMAIN o |-> IF o[i].k = key THEN E(key, val) ELSE o[i]]
  ELSE Append(o, E(key, val))
KeepOther(key, e) == e.k # key
Delete(o, key) == SelectSeq(o, LAMBDA e : KeepOther(key, e))
ObjectKeys(o) == [i \in DOMAIN o |-> o[i].k]
KeySet(o) == {o[i].k : i \in DOMAIN o}

RECURSIVE AssignFrom(_, _, _)
AssignFrom(target, src, i) ==
  IF i > Len(src) THEN target
  ELSE AssignFrom(Set(target, src[i].k, src[i].v), src, i + 1)
\* Object.assign(target, src): every own property, undefined ones included
ObjectAssign(target, src) == AssignFrom(target, src, 1)

RECURSIVE ExtendFrom(_, _, _)
ExtendFrom(target, src, i) ==
  IF i > Len(src) THEN target
  ELSE ExtendFrom(IF src[i].v # Undef THEN Set(target, src[i].k, src[i].v)
                  ELSE target, src, i + 1)
\* extend(true, target, src) on an object of scalars: undefined is skipped
ExtendObj(target, src) == ExtendFrom(target, src, 1)

\* header objects: order is irrelevant, a function name -> value
NoHeaders == [h \in {} |-> <<>>]
ExtendHeaders(target, src) ==
  [h \in DOMAIN target \cup DOMAIN src |->
     IF h \in DOMAIN src THEN src[h] ELSE target[h]]
SetHeader(hs, name, val) ==
  [h \in DOMAIN hs \cup {name} |-> IF h = name THEN val ELSE hs[h]]

\* --------------------------------------------------------- referenced data
MediaBody(m) ==
  CASE m \in {MediaString, MediaTyped} -> "hello"
    [] m = MediaStream -> ReadableRef
    [] OTHER -> Undef
MediaMimeType(m) == IF m = MediaTyped THEN "text/csv" ELSE Undef
ResourceMimeType(r) == IF r = BodyR THEN "image/png" ELSE Undef
JSONStringify(r) ==
  CASE r = BodyB -> "{\"title\":\"t\"}"
    [] r = BodyR -> "{\"name\":\"r\",\"mimeType\":\"image/png\"}"
    [] OTHER -> "\"" \o r \o "\""
PkgVersion == "pkg.version"

\* isReadableStream
isReadableStream(obj) == obj = ReadableRef

\* -------------------------------------------------------- parameter resolver
\* variant: the per-client defaults are assigned last and win over the call's
MergeParamsClientLast(topOptions, ctx, params) ==
  ObjectAssign(ObjectAssign(ObjectAssign(EmptyObj, topOptions), params), ctx)
\* params = Object.assign({}, topOptions, context._options.params, params)
MergeParams(topOptions, ctx, params) ==
  ObjectAssign(ObjectAssign(ObjectAssign(EmptyObj, topOptions), ctx), params)

\* const media = params.media || {}
MediaOf(params) == Or(Get(params, K("media")), MediaNoBody)

\* const resource = params.requestBody ? params.requestBody : params.resource
ResourceOf(params) ==
  IF Truthy(Get(params, K("requestBody")))
  THEN Get(params, K("requestBody")) ELSE Get(params, K("resource"))

\* variant: resource is deleted whether or not requestBody is given
ExtractBodyBoth(params) == Delete(Delete(params, K("resource")), K("requestBody"))
\* if (!params.requestBody && params.resource) delete params.resource;
\* delete params.requestBody
ExtractBody(params) ==
  LET p1 == IF ~Truthy(Get(params, K("requestBody")))
               /\ Truthy(Get(params, K("resource")))
            THEN Delete(params, K("resource")) ELSE params
  IN Delete(p1, K("requestBody"))

\* params.auth || context._options.auth || (google ? google._options.auth : null)
AuthClientOf(params, ctxAuthV, googleAuthV) ==
  Or(Get(params, K("auth")), Or(ctxAuthV, googleAuthV))

\* variant: the default type ignores that the body is a string
DefaultMimeOctet(media) == "application/octet-stream"
DefaultMime(media) ==
  IF TypeofString(MediaBody(media)) THEN "text/plain"
  ELSE "application/octet-stream"

\* delete params.media; delete params.auth; delete params.headers
ExtractReserved(params) ==
  Delete(Delete(Delete(params, K("media")), K("auth")), K("headers"))

EndsWithMarker(key) == key.marks > 0
StripMarker(key) == [key EXCEPT !.marks = @ - 1]
UnaliasKey(params, key) ==
  IF EndsWithMarker(key)
  THEN Delete(Set(params, StripMarker(key), Get(params, key)), key)
  ELSE params
RECURSIVE UnaliasFrom(_, _, _)
UnaliasFrom(params, keys, i) ==
  IF i > Len(keys) THEN params
  ELSE UnaliasFrom(UnaliasKey(params, keys[i]), keys, i + 1)
\* Object.keys(params).forEach(key => ...): the keys are listed once, up front
Unalias(params) == UnaliasFrom(params, ObjectKeys(params), 1)

\* variant: stops at the first missing name
getMissingParamsFirst(params, required) ==
  LET all == SelectSeq(required, LAMBDA name : Get(params, name) = Undef)
  IN IF all = <<>> THEN <<>> ELSE <<Head(all)>>
IsMissing(params, name) == Get(params, name) = Undef
getMissingParams(params, required) ==
  SelectSeq(required, LAMBDA name : IsMissing(params, name))

RECURSIVE DeleteAll(_, _, _)
DeleteAll(o, names, i) ==
  IF i > Len(names) THEN o ELSE DeleteAll(Delete(o, names[i]), names, i + 1)
\* parameters.pathParams.forEach(param => delete params[param])
StripPathParams(params, pathParams) == DeleteAll(params, pathParams, 1)
\* ... delete parameters.context._options.params[param]
StripStore(store, pathParams) == DeleteAll(store, pathParams, 1)

\* if (typeof authClient === 'string') params.key = params.key || authClient
ApplyApiKey(params, authClient) ==
  IF TypeofString(authClient)
  THEN Set(params, K("key"), Or(Get(params, K("key")), authClient))
  ELSE params
AuthAfterKey(authClient) == IF TypeofString(authClient) THEN Undef ELSE authClient

\* ------------------------------------------------------ request materializer
Lit(s) == [kind |-> "lit", text |-> s]
Var(key) == [kind |-> "var", name |-> key]
ExpandSegment(seg, params) ==
  IF seg.kind = "var"
  THEN Lit(IF Get(params, seg.name) = Undef THEN EmptyStr ELSE Get(params, seg.name))
  ELSE seg
\* urlTemplate.parse(url).expand(params)
Expand(url, params) == [i \in DOMAIN url |-> ExpandSegment(url[i], params)]
\* if (url) url = urlTemplate.parse(url).expand(params)
ExpandIfSet(url, params) == IF url # <<>> THEN Expand(url, params) ELSE url

\* parameters.mediaUrl && media.body
IsUpload(url, media) == url # <<>> /\ Truthy(MediaBody(media))
IsMultipart(url, media, resource) == IsUpload(url, media) /\ Truthy(resource)

CRLF == "\r\n"
\* `--${boundary}\r\nContent-Type: ${part['Content-Type']}\r\n\r\n`
Preamble(boundary, type) ==
  <<"--", boundary, CRLF, "Content-Type: ", type, CRLF, CRLF>>
\* `--${boundary}--`
Finale(boundary) == <<"--", boundary, "--">>
\* media.mimeType || (resource && resource.mimeType) || defaultMime
MediaPartType(media, resource) ==
  Or(MediaMimeType(media), Or(ResourceMimeType(resource), DefaultMime(media)))
\* variant: the closing delimiter is pushed at once for a Readable body too
PushedAtCallClosed(boundary, media, resource) ==
  <<Preamble(boundary, "application/json"), <<JSONStringify(resource)>>, <<CRLF>>,
    Preamble(boundary,
             Or(MediaMimeType(media),
                Or(ResourceMimeType(resource),
                   IF TypeofString(MediaBody(media)) THEN "text/plain"
                   ELSE "application/octet-stream")))>>
    \o (IF TypeofString(MediaBody(media))
        THEN <<<<MediaBody(media)>>, <<CRLF>>>> ELSE <<>>)
    \o <<Finale(boundary)>>
\* what the for loop and the if (!isStream) block push on rStream, one entry
\* per rStream.push(); each entry is the pushed text as a sequence of pieces
PushedAtCall(boundary, media, resource) ==
  <<Preamble(boundary, "application/json"), <<JSONStringify(resource)>>, <<CRLF>>,
    Preamble(boundary, MediaPartType(media, resource))>>
    \o (IF TypeofString(MediaBody(media))
        THEN <<<<MediaBody(media)>>, <<CRLF>>>> ELSE <<>>)
    \o (IF ~isReadableStream(MediaBody(media)) THEN <<Finale(boundary)>> ELSE <<>>)
\* flush(callback) { this.push('\r\n'); this.push(finale); callback(); }
Flush(boundary) == <<<<CRLF>>, Finale(boundary)>>

\* headers['Content-Type'] = ... / Object.assign(headers, {'Content-Type': ...})
GeneratedContentType(headers, url, media, resource, boundary) ==
  IF IsMultipart(url, media, resource)
  THEN SetHeader(headers, "Content-Type", <<"multipart/related; boundary=", boundary>>)
  ELSE IF IsUpload(url, media)
  THEN SetHeader(headers, "Content-Type", <<Or(MediaMimeType(media), DefaultMime(media))>>)
  ELSE headers

\* params.uploadType = 'multipart' | 'media'
SetUploadType(params, url, media, resource) ==
  IF IsMultipart(url, media, resource) THEN Set(params, K("uploadType"), "multipart")
  ELSE IF IsUpload(url, media) THEN Set(params, K("uploadType"), "media")
  ELSE params

\* options.data
DataOf(url, media, resource) ==
  IF IsMultipart(url, media, resource) THEN RStreamRef
  ELSE IF IsUpload(url, media) THEN MediaBody(media)
  ELSE Or(resource, Undef)

OwnDirective ==
  [product |-> "google-api-nodejs-client", version |-> PkgVersion, comment |-> "gzip"]
DirectiveLine(d) ==
  <<d.product, "/", d.version>>
    \o (IF Truthy(d.comment) THEN <<" (", d.comment, ")">> ELSE <<>>)
RECURSIVE JoinLines(_, _)
\* directives.map(...).join(' ')
JoinLines(ds, i) ==
  IF i > Len(ds) THEN <<>>
  ELSE (IF i > 1 THEN <<" ">> ELSE <<>>) \o DirectiveLine(ds[i]) \o JoinLines(ds, i + 1)
UserAgent(directives) == JoinLines(directives, 1)

\* options.headers['Accept-Encoding'] = 'gzip'; options.headers['User-Agent'] = userAgent
NodeHeaders(headers, directives) ==
  SetHeader(SetHeader(headers, "Accept-Encoding", <<"gzip">>),
            "User-Agent", UserAgent(directives))

\* variant: extend() with its arguments swapped, the base options' headers win
OptionHeadersBaseWins(target, headers, browser, directives) ==
  IF browser THEN ExtendHeaders(headers, target)
  ELSE NodeHeaders(ExtendHeaders(headers, target), directives)
\* extend(true, options.headers || {}, headers), then the non-browser headers
OptionHeaders(target, headers, browser, directives) ==
  IF browser THEN ExtendHeaders(target, headers)
  ELSE NodeHeaders(ExtendHeaders(target, headers), directives)

\* mergedOptions.params of extend(true, {}, google._options, context._options, options)
MergedParams(googleP, ctxP, params) ==
  ExtendObj(ExtendObj(ExtendObj(EmptyObj, googleP), ctxP), params)

\* new DefaultTransporter().request | authClient.request
Executor(authClient) ==
  IF Truthy(authClient) /\ TypeofObject(authClient) THEN "credential" ELSE "default"

\* validateStatus installed when the caller gave none
ValidateStatus(status) == (status >= 200 /\ status < 300) \/ status = 304

\* -------------------------------------------------------------------- state
VARIABLES
  googleParams,  \* context.google._options.params (global defaults)
  ctxParams,     \* context._options.params (per-client default-params store)
  ctxAuth,       \* context._options.auth
  userHeaders,   \* the headers object the caller passes as params.headers
  baseOptions,   \* parameters.options, the caller's object
  mediaUrl,      \* parameters.mediaUrl, a field of the caller's descriptor
  browser,       \* isBrowser()
  last,          \* the call in progress: its inputs and what it produced
  srcChunks,     \* media Readable: chunks not yet emitted
  srcState,      \* media Readable: none | open | ended | errored
  bytesRead,     \* pStream.bytesRead
  progress,      \* 'progress' events pStream has emitted
  pBuf,          \* pStream: chunks pushed, not yet written to rStream
  pEnded,        \* pStream.end() was called by the pipe
  rBuf,          \* rStream: pushed, not yet read by the consumer
  rEnded,        \* rStream.push(null) happened
  out,           \* what the consumer of options.data has read, concatenated
  outState       \* consumer's view: none | open | ended | errored

config == <<googleParams, ctxAuth, browser>>
callerObjects == <<userHeaders, baseOptions, mediaUrl>>
streamVars ==
  <<srcChunks, srcState, bytesRead, progress, pBuf, pEnded, rBuf, rEnded, out, outState>>
vars == <<googleParams, ctxParams, ctxAuth, userHeaders, baseOptions, mediaUrl,
          browser, last, srcChunks, srcState, bytesRead, progress, pBuf, pEnded,
          rBuf, rEnded, out, outState>>

GoogleAuth == Undef
CtxHeaders == [h \in {"X-Client"} |-> <<"per-client">>]

Idle ==
  [outcome |-> "idle", raw |-> EmptyObj, required |-> <<>>, pathParams |-> <<>>,
   top |-> EmptyObj, ctxBefore |-> EmptyObj, merged |-> EmptyObj,
   bodyStage |-> EmptyObj, resolved |-> EmptyObj, resource |-> Undef,
   media |-> MediaNoBody, missing |-> <<>>, optParams |-> EmptyObj,
   query |-> EmptyObj, callerHeaders |-> NoHeaders, headers |-> NoHeaders,
   data |-> Undef, executor |-> "none", url |-> <<>>, boundary |-> Undef,
   chunks |-> <<>>]

NoStream ==
  /\ srcChunks = <<>> /\ srcState = "none" /\ bytesRead = 0 /\ progress = <<>>
  /\ pBuf = <<>> /\ pEnded = FALSE /\ rBuf = <<>> /\ rEnded = FALSE
  /\ out = <<>> /\ outState = "none"

\* ------------------------------------------------------ createAPIRequestAsync
\* One call, from its first line to the request() it returns or the Error it
\* throws.  raw is parameters.params, boundary what uuid.v4() returns and
\* chunks how the media Readable (when media.body is one) will cut its content.
Call(raw, required, pathParams, boundary, chunks) ==
  LET merged == MergeParams(googleParams, ctxParams, raw)
      media == MediaOf(merged)
      resource == ResourceOf(merged)
      bodyStage == ExtractBody(merged)
      authClient == AuthClientOf(bodyStage, ctxAuth, GoogleAuth)
      passed == Get(bodyStage, K("headers"))
      headers == IF passed = HeadersRef THEN userHeaders ELSE NoHeaders
      resolved == Unalias(ExtractReserved(bodyStage))
      missing == getMissingParams(resolved, required)
      url == ExpandIfSet(baseOptions.url, resolved)
      mUrl == ExpandIfSet(mediaUrl, resolved)
      stripped == StripPathParams(resolved, pathParams)
      store == StripStore(ctxParams, pathParams)
      keyed == ApplyApiKey(stripped, authClient)
      params == SetUploadType(keyed, mUrl, media, resource)
      multipart == IsMultipart(mUrl, media, resource)
      isStream == multipart /\ isReadableStream(MediaBody(media))
      hdrs == GeneratedContentType(headers, mUrl, media, resource, boundary)
      directives == IF baseOptions.hasDirectives
                    THEN Append(baseOptions.directives, OwnDirective)
                    ELSE <<OwnDirective>>
      target == IF baseOptions.hasHeaders THEN baseOptions.headers ELSE NoHeaders
      optHeaders == OptionHeaders(target, hdrs, browser, directives)
  IN
  /\ last.outcome = "idle"
  /\ baseOptions.hasDirectives => Len(baseOptions.directives) < MaxDirectives
  /\ IF missing # <<>>
     THEN \* throw new Error('Missing required parameters: ' + ...)
          /\ last' = [Idle EXCEPT !.outcome = "error", !.raw = raw,
                        !.required = required, !.pathParams = pathParams,
                        !.top = googleParams, !.ctxBefore = ctxParams,
                        !.merged = merged, !.bodyStage = bodyStage,
                        !.resolved = resolved, !.resource = resource,
                        !.media = media, !.missing = missing,
                        !.callerHeaders = headers]
          /\ UNCHANGED <<ctxParams, callerObjects, streamVars>>
     ELSE /\ last' = [outcome |-> "sent", raw |-> raw, required |-> required,
                      pathParams |-> pathParams, top |-> googleParams,
                      ctxBefore |-> ctxParams, merged |-> merged,
                      bodyStage |-> bodyStage, resolved |-> resolved,
                      resource |-> resource, media |-> media,
                      missing |-> missing, optParams |-> params,
                      query |-> MergedParams(googleParams, store, params),
                      callerHeaders |-> headers,
                      headers |-> ExtendHeaders(CtxHeaders, optHeaders),
                      data |-> DataOf(mUrl, media, resource),
                      executor |-> Executor(AuthAfterKey(authClient)),
                      url |-> IF IsUpload(mUrl, media) THEN mUrl ELSE url,
                      boundary |-> IF multipart THEN boundary ELSE Undef,
                      chunks |-> IF isStream THEN chunks ELSE <<>>]
          /\ ctxParams' = store
          /\ mediaUrl' = mUrl
          /\ userHeaders' = IF passed = HeadersRef THEN hdrs ELSE userHeaders
          /\ baseOptions' =
               [baseOptions EXCEPT
                  !.headers = IF baseOptions.hasHeaders THEN optHeaders ELSE @,
                  !.directives = IF baseOptions.hasDirectives /\ ~browser
                                 THEN directives ELSE @]
          /\ IF multipart
             THEN /\ rBuf' = PushedAtCall(boundary, media, resource)
                  /\ rEnded' = ~isStream
                  /\ srcState' = IF isStream THEN "open" ELSE "none"
                  /\ srcChunks' = IF isStream THEN chunks ELSE <<>>
                  /\ outState' = "open"
                  /\ UNCHANGED <<bytesRead, progress, pBuf, pEnded, out>>
             ELSE UNCHANGED streamVars
  /\ UNCHANGED config

\* ------------------------------------------- the assembled multipart stream
\* part.body.pipe(pStream): a 'data' event of the media Readable is written to
\* pStream, whose _transform counts it, emits 'progress' and pushes it on
SourceData ==
  /\ srcState = "open" /\ srcChunks # <<>>
  /\ bytesRead' = bytesRead + Len(Head(srcChunks))
  /\ progress' = Append(progress, bytesRead')
  /\ pBuf' = Append(pBuf, Head(srcChunks))
  /\ srcChunks' = Tail(srcChunks)
  /\ UNCHANGED <<srcState, pEnded, rBuf, rEnded, out, outState>>

\* the media Readable is exhausted: 'end', on which the pipe calls pStream.end()
SourceEnd ==
  /\ srcState = "open" /\ srcChunks = <<>>
  /\ srcState' = "ended"
  /\ pEnded' = TRUE
  /\ UNCHANGED <<srcChunks, bytesRead, progress, pBuf, rBuf, rEnded, out, outState>>

\* the media Readable emits 'error' and is destroyed: it emits neither 'data'
\* nor 'end' afterwards.  pipe() installs no handler that forwards a source's
\* 'error' to its destination, and the code installs none either.
SourceError ==
  /\ srcState = "open"
  /\ srcState' = "errored"
  /\ UNCHANGED <<srcChunks, bytesRead, progress, pBuf, pEnded, rBuf, rEnded, out, outState>>

\* pStream.pipe(rStream): a chunk pStream pushed is written to rStream, whose
\* pass-through transform pushes it on its readable side
ProgressData ==
  /\ pBuf # <<>>
  /\ rBuf' = Append(rBuf, Head(pBuf))
  /\ pBuf' = Tail(pBuf)
  /\ UNCHANGED <<srcChunks, srcState, bytesRead, progress, pEnded, rEnded, out, outState>>

\* pStream has ended and is drained: 'end', on which the pipe calls
\* rStream.end(); rStream runs flush() and then ends its readable side
ProgressEnd ==
  /\ pEnded /\ pBuf = <<>> /\ ~rEnded
  /\ rBuf' = rBuf \o Flush(last.boundary)
  /\ rEnded' = TRUE
  /\ UNCHANGED <<srcChunks, srcState, bytesRead, progress, pBuf, pEnded, out, outState>>

\* the consumer of options.data reads what rStream holds
Consume ==
  /\ outState = "open" /\ rBuf # <<>>
  /\ out' = out \o Head(rBuf)
  /\ rBuf' = Tail(rBuf)
  /\ UNCHANGED <<srcChunks, srcState, bytesRead, progress, pBuf, pEnded, rEnded, outState>>

\* ... and sees 'end' once rStream has ended and is drained
ConsumeEnd ==
  /\ outState = "open" /\ rBuf = <<>> /\ rEnded
  /\ outState' = "ended"
  /\ UNCHANGED <<srcChunks, srcState, bytesRead, progress, pBuf, pEnded, rBuf, rEnded, out>>

StreamStep ==
  /\ (SourceData \/ SourceEnd \/ ProgressData \/ ProgressEnd \/ Consume \/ ConsumeEnd)
  /\ UNCHANGED <<config, ctxParams, callerObjects, last>>

StreamFault ==
  /\ SourceError
  /\ UNCHANGED <<config, ctxParams, callerObjects, last>>

\* nothing of the call's stream is left to happen
StreamQuiet ==
  /\ srcState # "open"
  /\ pBuf = <<>> /\ rBuf = <<>>
  /\ ~(pEnded /\ ~rEnded)
  /\ ~(outState = "open" /\ rEnded)

\* the caller takes the settled promise (the response or the Error); its
\* objects and the per-client store stay as the call left them
Settle ==
  /\ last.outcome # "idle"
  /\ StreamQuiet
  /\ last' = Idle
  /\ srcChunks' = <<>> /\ srcState' = "none" /\ bytesRead' = 0 /\ progress' = <<>>
  /\ pBuf' = <<>> /\ pEnded' = FALSE /\ rBuf' = <<>> /\ rEnded' = FALSE
  /\ out' = <<>> /\ outState' = "none"
  /\ UNCHANGED <<config, ctxParams, callerObjects>>

\* ------------------------------------------------------------------- inputs
Entries(keys, vals) == {E(k, v) : k \in keys, v \in vals}
\* objects of at most two properties, in either insertion order; a first
\* property is "a" or undefined, a second one "b" or undefined
SmallObjects(keys) ==
  {<<>>} \cup {<<e>> : e \in Entries(keys, {"a", Undef})}
    \cup {<<pair[1], pair[2]>> :
            pair \in {pr \in Entries(keys, {"a", Undef}) \X Entries(keys, {"b", Undef}) :
                        pr[1].k # pr[2].k}}

ResolveKeys == {KA("id", n) : n \in 0..MaxMarks} \cup {K("q")}
ResolveReserved ==
  { <<>>,
    <<E(K("requestBody"), BodyB)>>,
    <<E(K("resource"), BodyR)>>,
    <<E(K("requestBody"), BodyB), E(K("resource"), BodyR)>>,
    <<E(K("requestBody"), EmptyStr), E(K("resource"), BodyR)>>,
    <<E(K("resource"), EmptyStr)>>,
    <<E(K("requestBody"), BodyB), E(KA("resource", 1), "a")>>,
    <<E(K("resource"), BodyR), E(KA("resource", 1), "a")>>,
    <<E(K("auth"), "APIKEY")>>,
    <<E(K("auth"), ClientObj), E(K("key"), "mine")>> }
ResolveRequired == {<<>>, <<K("id")>>, <<K("q"), K("id")>>}
ResolvePath == {<<>>, <<K("id")>>, <<K("id"), K("q")>>}
GoogleStores == {EmptyObj, <<E(K("id"), "g1"), E(K("q"), "g2")>>}
CtxStores ==
  {EmptyObj, <<E(K("q"), "c2"), E(K("id"), "c1")>>, <<E(KA("id", 1), "c3")>>}

Boundaries == {"uuid-1", "uuid-2"}
MediaContent == [i \in 1..MaxBytes |-> "byte" \o ToString(i)]
RECURSIVE Chunkings(_)
\* every way to cut a content into non-empty chunks
Chunkings(bytes) ==
  IF bytes = <<>> THEN {<<>>}
  ELSE UNION {{<<SubSeq(bytes, 1, n)>> \o rest :
                 rest \in Chunkings(SubSeq(bytes, n + 1, Len(bytes)))} :
              n \in 1..Len(bytes)}
SourceChunkings == UNION {Chunkings(SubSeq(MediaContent, 1, n)) : n \in 0..MaxBytes}
ChunkingsFor(raw) ==
  IF Get(raw, K("media")) = MediaStream THEN SourceChunkings ELSE {<<>>}

UrlTemplate == <<Lit("https://api/items/"), Var(K("id"))>>
MediaUrlTemplate == <<Lit("https://api/upload/items/"), Var(K("id"))>>
NoOptions ==
  [url |-> UrlTemplate, hasHeaders |-> FALSE, headers |-> NoHeaders,
   hasDirectives |-> FALSE, directives |-> <<>>]

\* ----------------------------------------------- parameter-resolution runs
Init ==
  /\ googleParams \in GoogleStores
  /\ ctxParams \in CtxStores
  /\ ctxAuth = CtxClientObj
  /\ userHeaders = NoHeaders
  /\ baseOptions = NoOptions
  /\ mediaUrl = <<>>
  /\ browser = FALSE
  /\ last = Idle
  /\ NoStream

CallResolve ==
  /\ last.outcome = "idle"
  /\ \E ord \in SmallObjects(ResolveKeys),
        reserved \in ResolveReserved,
        required \in ResolveRequired,
        pathParams \in ResolvePath :
       Call(ord \o reserved, required, pathParams, "uuid-1", <<>>)

Next == CallResolve \/ Settle
Spec == Init /\ [][Next]_vars

\* ------------------------------------------------- request-building runs
\* calls of one client that reuse the caller's headers object, base options
\* and descriptor; media bodies are strings, read back by the consumer
HeaderChoices ==
  { NoHeaders,
    [h \in {"Content-Type"} |-> <<"mine/type">>],
    [h \in {"X-Custom", "User-Agent", "Accept-Encoding"} |-> <<"mine">>] }
OptionChoices ==
  { NoOptions,
    [NoOptions EXCEPT !.hasHeaders = TRUE,
                      !.headers = [h \in {"X-Base", "X-Custom"} |-> <<"base">>]],
    [NoOptions EXCEPT !.hasDirectives = TRUE,
                      !.directives = <<[product |-> "myapp", version |-> "1.0",
                                        comment |-> Undef]>>] }
RequestOrdinary == {<<>>, <<E(K("id"), "a"), E(K("q"), "b")>>}
RequestMedia ==
  {<<>>, <<E(K("media"), MediaString)>>, <<E(K("media"), MediaTyped)>>}
RequestBodies == {<<>>, <<E(K("requestBody"), BodyB)>>, <<E(K("resource"), BodyR)>>}
RequestHeaders == {<<>>, <<E(K("headers"), HeadersRef)>>}

InitRequest ==
  /\ googleParams = <<E(K("q"), "g2")>>
  /\ ctxParams = <<E(K("id"), "c1")>>
  /\ ctxAuth = Undef
  /\ userHeaders \in HeaderChoices
  /\ baseOptions \in OptionChoices
  /\ mediaUrl = MediaUrlTemplate
  /\ browser \in BOOLEAN
  /\ last = Idle
  /\ NoStream

CallRequest ==
  /\ last.outcome = "idle"
  /\ \E ord \in RequestOrdinary, media \in RequestMedia, body \in RequestBodies,
        headers \in RequestHeaders :
       Call(ord \o media \o body \o headers, <<K("id")>>, <<K("id")>>,
            "uuid-1", <<>>)

Reader ==
  /\ (Consume \/ ConsumeEnd)
  /\ UNCHANGED <<config, ctxParams, callerObjects, last>>

NextRequest == CallRequest \/ Reader \/ Settle
RequestSpec == InitRequest /\ [][NextRequest]_vars

\* ---------------------------------------------------------- upload runs
\* multipart and simple uploads whose media body is a string or a Readable
UploadMedia ==
  {<<E(K("media"), MediaString)>>, <<E(K("media"), MediaStream)>>,
   <<E(K("media"), MediaTyped)>>}

InitUpload ==
  /\ googleParams = EmptyObj
  /\ ctxParams = <<E(K("id"), "c1")>>
  /\ ctxAuth = CtxClientObj
  /\ userHeaders = NoHeaders
  /\ baseOptions = NoOptions
  /\ mediaUrl = MediaUrlTemplate
  /\ browser = FALSE
  /\ last = Idle
  /\ NoStream

CallUpload ==
  /\ last.outcome = "idle"
  /\ \E media \in UploadMedia, body \in RequestBodies :
       \E boundary \in Boundaries, chunks \in ChunkingsFor(media) :
         Call(<<E(K("id"), "a")>> \o media \o body, <<K("id")>>, <<K("id")>>,
              boundary, chunks)

NextUpload == CallUpload \/ StreamStep \/ StreamFault \/ Settle
\* the event loop delivers every pending stream event and the transport keeps
\* reading options.data; a source error is never bound to happen
UploadSpec == InitUpload /\ [][NextUpload]_vars /\ WF_vars(StreamStep)

\* ------------------------------------------------------------------ claims
RECURSIVE Flatten(_)
Flatten(items) == IF items = <<>> THEN <<>> ELSE Head(items) \o Flatten(Tail(items))
Called == last.outcome # "idle"
Sent == last.outcome = "sent"

\* C1: for every key of the three parameter sources, the merged value is the
\* per-call value if the key is present per call, else the per-client value if
\* present there, else the global value; the merged map has no other key.
C1_MergePrecedence ==
  Called =>
    /\ KeySet(last.merged)
         = KeySet(last.raw) \cup KeySet(last.ctxBefore) \cup KeySet(last.top)
    /\ \A key \in KeySet(last.merged) :
         Get(last.merged, key) =
           IF Has(last.raw, key) THEN Get(last.raw, key)
           ELSE IF Has(last.ctxBefore, key) THEN Get(last.ctxBefore, key)
           ELSE Get(last.top, key)
\* a call whose three sources all hold id, and whose q comes from the client
C1_Witness ==
  /\ Called
  /\ Has(last.raw, K("id")) /\ Has(last.ctxBefore, K("id")) /\ Has(last.top, K("id"))
  /\ Get(last.merged, K("id")) = "a"
  /\ ~Has(last.raw, K("q")) /\ Get(last.merged, K("q")) = "c2"
  /\ Get(last.top, K("q")) = "g2"

UndefinedAt == {i \in DOMAIN last.required : Get(last.resolved, last.required[i]) = Undef}
NthUndefined(j) ==
  CHOOSE i \in UndefinedAt : Cardinality({x \in UndefinedAt : x <= i}) = j
\* C2: a call with a required name undefined in the resolved map fails with
\* the missing names in requiredParams order, no executor is invoked and the
\* per-client default-params store is as it was before the call.
C2_MissingFailsFast ==
  (Called /\ UndefinedAt # {}) =>
    /\ last.outcome = "error"
    /\ Len(last.missing) = Cardinality(UndefinedAt)
    /\ \A j \in DOMAIN last.missing : last.missing[j] = last.required[NthUndefined(j)]
    /\ last.executor = "none"
    /\ ctxParams = last.ctxBefore
    /\ rBuf = <<>> /\ outState = "none"
\* two names missing, and a path parameter still in the store
C2_Witness ==
  /\ last.outcome = "error"
  /\ last.missing = <<K("q"), K("id")>>
  /\ last.pathParams = <<K("id")>>
  /\ Has(ctxParams, K("id"))

\* C3 as stated: with requestBody and resource both present the body is the
\* requestBody and the map that reaches the path/query stage holds neither
\* key; with only resource present the body is it and the key is removed.
C3_Original ==
  Called =>
    /\ (Has(last.merged, K("requestBody")) /\ Has(last.merged, K("resource"))) =>
         /\ last.resource = Get(last.merged, K("requestBody"))
         /\ ~Has(last.resolved, K("requestBody"))
         /\ ~Has(last.resolved, K("resource"))
    /\ (~Has(last.merged, K("requestBody")) /\ Has(last.merged, K("resource"))) =>
         /\ last.resource = Get(last.merged, K("resource"))
         /\ ~Has(last.resolved, K("resource"))
\* C3 amended: a truthy requestBody is the body, and a resource key beside it
\* stays in the map with its value; without a truthy requestBody a truthy
\* resource is the body and is removed; requestBody is always removed; when no
\* resource_ / requestBody_ alias is given the path/query stage sees the same.
C3_BodyResolution ==
  Called =>
    LET rb == Get(last.merged, K("requestBody"))
        rs == Get(last.merged, K("resource"))
    IN /\ ~Has(last.bodyStage, K("requestBody"))
       /\ Truthy(rb) =>
            /\ last.resource = rb
            /\ Has(last.bodyStage, K("resource")) = Has(last.merged, K("resource"))
            /\ Get(last.bodyStage, K("resource")) = rs
       /\ (~Truthy(rb) /\ Truthy(rs)) =>
            /\ last.resource = rs
            /\ ~Has(last.bodyStage, K("resource"))
       /\ (~Has(last.merged, KA("resource", 1)) /\ ~Has(last.merged, KA("requestBody", 1))) =>
            /\ ~Has(last.resolved, K("requestBody"))
            /\ Has(last.resolved, K("resource")) = Has(last.bodyStage, K("resource"))
            /\ Get(last.resolved, K("resource")) = Get(last.bodyStage, K("resource"))
\* both keys given: the body is B and resource: R is still a parameter
C3_Witness ==
  /\ Sent
  /\ Get(last.merged, K("requestBody")) = BodyB
  /\ Get(last.merged, K("resource")) = BodyR
  /\ last.resource = BodyB
  /\ Get(last.resolved, K("resource")) = BodyR
  /\ Get(last.query, K("resource")) = BodyR

PathNames == {last.pathParams[i] : i \in DOMAIN last.pathParams}
\* C4: after a call that passed the required check, no path-parameter name is
\* in the query-parameter map handed to the executor nor in the per-client
\* store, every other resolved parameter is in the query map and every other
\* key of the store is kept.
C4_PathParamsStripped ==
  Sent =>
    /\ \A name \in PathNames : ~Has(last.query, name) /\ ~Has(ctxParams, name)
    /\ \A key \in KeySet(last.resolved) \ PathNames :
         Get(last.resolved, key) # Undef => Has(last.query, key)
    /\ \A key \in KeySet(last.ctxBefore) \ PathNames :
         Has(ctxParams, key) /\ Get(ctxParams, key) = Get(last.ctxBefore, key)

BeforeUnalias == ExtractReserved(last.bodyStage)
\* C8: after un-aliasing no key of the resolved map ends in "_"; every input
\* key k_ appears as k with the value k_ had; keys without the marker that no
\* alias overwrites keep their values.
C8_NoAliasLeft ==
  Called =>
    /\ \A key \in KeySet(last.resolved) : ~EndsWithMarker(key)
    /\ \A key \in KeySet(BeforeUnalias) :
         IF EndsWithMarker(key)
         THEN Get(last.resolved, StripMarker(key)) = Get(BeforeUnalias, key)
         ELSE KA(key.base, key.marks + 1) \notin KeySet(BeforeUnalias) =>
                Get(last.resolved, key) = Get(BeforeUnalias, key)

\* C5 as stated: every header of the caller's headers parameter reaches the
\* executor with the caller's value, generated headers of the same name
\* notwithstanding.
C5_Original ==
  Sent => \A h \in DOMAIN last.callerHeaders :
            h \in DOMAIN last.headers /\ last.headers[h] = last.callerHeaders[h]
GeneratedNames ==
  (IF Get(last.optParams, K("uploadType")) \in {"media", "multipart"}
   THEN {"Content-Type"} ELSE {})
    \cup (IF browser THEN {} ELSE {"Accept-Encoding", "User-Agent"})
OwnLine == <<"google-api-nodejs-client", "/", PkgVersion, " (", "gzip", ")">>
\* C5 amended: a caller's header reaches the executor with the caller's value
\* (over the base options' header of that name) unless the core generates a
\* header of that name for the call: Content-Type on a simple or multipart
\* upload, Accept-Encoding and User-Agent outside a browser; the generated
\* value then replaces the caller's.
C5_CallerHeadersUnlessGenerated ==
  Sent => \A h \in DOMAIN last.callerHeaders :
            /\ h \in DOMAIN last.headers
            /\ h \notin GeneratedNames => last.headers[h] = last.callerHeaders[h]
            /\ (h = "Accept-Encoding" /\ ~browser) => last.headers[h] = <<"gzip">>
            /\ (h = "Content-Type"
                  /\ Get(last.optParams, K("uploadType")) = "multipart") =>
                 last.headers[h] = <<"multipart/related; boundary=", last.boundary>>
            /\ (h = "Content-Type" /\ Get(last.optParams, K("uploadType")) = "media") =>
                 last.headers[h]
                   = IF last.media = MediaTyped THEN <<"text/csv">> ELSE <<"text/plain">>
            /\ (h = "User-Agent" /\ ~browser) =>
                 /\ Len(last.headers[h]) >= Len(OwnLine)
                 /\ SubSeq(last.headers[h], Len(last.headers[h]) - Len(OwnLine) + 1,
                           Len(last.headers[h])) = OwnLine
\* the caller's X-Custom beats the base options' one, while its
\* Accept-Encoding is replaced by the generated gzip
C5_Witness ==
  /\ Sent
  /\ DOMAIN last.callerHeaders = {"X-Custom", "User-Agent", "Accept-Encoding"}
  /\ baseOptions.hasHeaders
  /\ last.headers["X-Custom"] = <<"mine">>
  /\ last.callerHeaders["Accept-Encoding"] = <<"mine">>
  /\ last.headers["Accept-Encoding"] = <<"gzip">>

\* what a multipart body with a string media part reads as, for a media type
MultipartText(boundary, meta, type, m) ==
  <<"--", boundary, CRLF, "Content-Type: ", "application/json", CRLF, CRLF,
    JSONStringify(meta), CRLF,
    "--", boundary, CRLF, "Content-Type: ", type, CRLF, CRLF,
    m, CRLF, "--", boundary, "--">>
StringMultipart ==
  /\ Sent /\ last.data = RStreamRef
  /\ last.media = MediaString /\ ResourceMimeType(last.resource) = Undef
\* C6 as stated: the media part of a string media body without an explicit
\* MIME type is typed application/octet-stream.
C6_Original ==
  (StringMultipart /\ outState = "ended") =>
    out = MultipartText(last.boundary, last.resource, "application/octet-stream", "hello")
\* C6 amended: with a string media body and no mimeType on the media spec nor
\* on the body payload, the media part is typed text/plain; the stream holds
\* exactly that text from the call on, is already ended, and the consumer reads
\* it whole, the closing delimiter once and last, before it sees the end.
C6_StringMultipartText ==
  StringMultipart =>
    /\ out \o Flatten(rBuf)
         = MultipartText(last.boundary, last.resource, "text/plain", "hello")
    /\ rEnded
    /\ outState \in {"open", "ended"}
    /\ outState = "ended" => rBuf = <<>>
C6_Witness ==
  /\ StringMultipart /\ outState = "ended"
  /\ last.boundary = "uuid-2" /\ last.resource = BodyB
  /\ out = MultipartText("uuid-2", BodyB, "text/plain", "hello")

\* C7: once the media source has raised an error, the consumer of the
\* assembled stream eventually observes an error on it; the stream does not
\* end normally after the error, nor stay open for ever without an error.
C7_SourceErrorReachesConsumer ==
  /\ [](srcState = "errored" => outState # "ended")
  /\ ((srcState = "errored") ~> (outState = "errored"))

StreamMultipart == Sent /\ last.data = RStreamRef /\ last.media = MediaStream
StreamHead ==
  <<"--", last.boundary, CRLF, "Content-Type: ", "application/json", CRLF, CRLF,
    JSONStringify(last.resource), CRLF,
    "--", last.boundary, CRLF, "Content-Type: ",
    IF last.resource = BodyR THEN "image/png" ELSE "application/octet-stream",
    CRLF, CRLF>>
StreamClosing == <<CRLF, "--", last.boundary, "--">>
SourceContent == Flatten(last.chunks)
Forwarded == Len(SourceContent) - Len(Flatten(pBuf)) - Len(Flatten(srcChunks))
C9_Order ==
  StreamMultipart =>
    /\ out \o Flatten(rBuf)
         = StreamHead \o SubSeq(SourceContent, 1, Forwarded)
             \o (IF rEnded THEN StreamClosing ELSE <<>>)
    /\ rEnded => (srcState = "ended" /\ Forwarded = Len(SourceContent))
    /\ outState = "ended" => (rEnded /\ rBuf = <<>>)
    /\ Len(progress) = Len(last.chunks) - Len(srcChunks)
    /\ \A i \in DOMAIN progress :
         progress[i] = Len(Flatten(SubSeq(last.chunks, 1, i)))
C9_Done ==
  /\ outState = "ended"
  /\ out = StreamHead \o SourceContent \o StreamClosing
\* C9: with a Readable media body the consumer reads the metadata part, the
\* media part's preamble, the source's chunks unchanged and in order, then
\* CRLF and the closing delimiter once, then the end; the closing delimiter and
\* the end come only after the source has ended, and then they do come.
C9_StreamedMultipart == [](C9_Order) /\ ((StreamMultipart /\ srcState = "ended") ~> C9_Done)
C9_Witness ==
  /\ StreamMultipart /\ C9_Done
  /\ Len(last.chunks) > 1
  /\ progress = <<1, 2>>

\* C10: a call changes nothing outside its working copies but the per-client
\* store, from which it only removes its path-parameter names: the caller's
\* headers object, base options and descriptor and the global defaults are
\* after the call as they were before.
C10_Frame ==
  [][/\ userHeaders' = userHeaders
     /\ baseOptions' = baseOptions
     /\ mediaUrl' = mediaUrl
     /\ googleParams' = googleParams
     /\ (last'.outcome = "sent" /\ last.outcome = "idle") =>
          ctxParams' = StripStore(ctxParams, last'.pathParams)]_vars

====
